---- MODULE Spec2Model ----
(***************************************************************************)
(* Model of core/server/src/prover_server/pool.rs: the prover data pool    *)
(* (ProversDataPool) and the Maintainer loop that fills it.                *)
(*                                                                         *)
(* Two specifications are given.  SpecPool drives the pool's own methods   *)
(* in any order, as a unit test of ProversDataPool would.  Spec runs the   *)
(* Maintainer loop against a storage that commits blocks, interleaved with *)
(* a consumer calling get and clean_up.                                    *)
(***************************************************************************)
EXTENDS Integers, Sequences, FiniteSets, TLC

VARIABLES
    \* ProversDataPool fields
    last_prepared, last_loaded, limit, operations, prepared,
    \* Maintainer fields and the position of its thread
    account_state, pc, mlock, fetched, cur_op, result,
    \* storage collaborator: the number of the first unverified block and
    \* the committed, unverified blocks
    first_block, chain,
    \* observation of the last call (name, argument, return value)
    last,
    \* history: blocks whose preparation completed and were not cleaned since
    ready,
    \* number of store_to_prove calls made by the pool driver
    nstores,
    \* history of the Maintainer: the block numbers it stored into the pool
    \* and the block numbers it inserted into the prepared map, in order
    loaded, inserted

pool == <<last_prepared, last_loaded, limit, operations, prepared>>
maintainer == <<account_state, pc, mlock, fetched, cur_op, result>>
history == <<loaded, inserted>>
vars == <<last_prepared, last_loaded, limit, operations, prepared,
          account_state, pc, mlock, fetched, cur_op, result,
          first_block, chain, last, ready, nstores, loaded, inserted>>

storage == <<first_block, chain>>

(***************************************************************************)
(* Bounds of the model.                                                    *)
(***************************************************************************)
\* largest block number the pool driver stores
MaxBlockNumber == 10
\* number of store_to_prove calls the pool driver makes
MaxStores == 2
\* number of blocks the storage commits
MaxBlocks == 2
\* largest number of the first committed-but-unverified block
MaxFirstBlock == 10
\* number of blocks the storage commits when it builds up a backlog
MaxBacklog == 11
\* number of committed blocks that may await their bundle when the storage
\* commits one more to the backlog
MaxOutstanding == 2

(***************************************************************************)
(* Finite maps (HashMap) as functions with a finite domain.                *)
(***************************************************************************)
EmptyMap == [k \in {} |-> 0]

MapInsert(m, k, v) == [x \in DOMAIN m \cup {k} |-> IF x = k THEN v ELSE m[x]]

MapRemove(m, k) == [x \in DOMAIN m \ {k} |-> m[x]]

None == [some |-> FALSE]

Some(v) == [some |-> TRUE, val |-> v]

\* all orders in which a HashMap may iterate over the key set S
RECURSIVE Orders(_)
Orders(S) ==
    IF S = {} THEN {<<>>}
    ELSE UNION {{<<k>> \o o : o \in Orders(S \ {k})} : k \in S}

(***************************************************************************)
(* Ledger values.  An account is a balance of the one modelled token and a *)
(* public-key hash; an account map takes account ids to accounts.  A root  *)
(* hash is modelled by the account map it commits to (a collision-free     *)
(* hash).                                                                  *)
(***************************************************************************)
FeeAccount == 0

AccountIds == 0 .. 2

DefaultLeaf == [bal |-> 0, pk |-> 0]

\* the committed state below the first unverified block
GenesisState ==
    (0 :> [bal |-> 0, pk |-> 0]) @@ (1 :> [bal |-> 4, pk |-> 0])
        @@ (2 :> [bal |-> 0, pk |-> 0])

\* CircuitAccountTree::root_hash
root_hash(tree) == tree

(***************************************************************************)
(* ProversDataPool.  Self is the record of the pool's fields.              *)
(***************************************************************************)
Self == [last_prepared |-> last_prepared, last_loaded |-> last_loaded,
         limit |-> limit, operations |-> operations, prepared |-> prepared]

\* ProversDataPool::new
new ==
    [last_prepared |-> 0, last_loaded |-> 0, limit |-> 10,
     operations |-> EmptyMap, prepared |-> EmptyMap]

SetSelfInit ==
    /\ last_prepared = new.last_prepared
    /\ last_loaded = new.last_loaded
    /\ limit = new.limit
    /\ operations = new.operations
    /\ prepared = new.prepared

SetSelf(p) ==
    /\ last_prepared' = p.last_prepared
    /\ last_loaded' = p.last_loaded
    /\ limit' = p.limit
    /\ operations' = p.operations
    /\ prepared' = p.prepared

\* ProversDataPool::get
get(self, block) ==
    IF block \in DOMAIN self.prepared THEN Some(self.prepared[block]) ELSE None

\* clean_up as it would be if it emptied the prepared map
clean_up_clears(self, block) ==
    [self EXCEPT !.prepared = EmptyMap]

\* ProversDataPool::clean_up
clean_up(self, block) ==
    [self EXCEPT !.prepared = MapRemove(@, block)]

\* has_capacity as it would be with <= for <
has_capacity_inclusive(self) ==
    self.last_loaded - self.last_prepared + Cardinality(DOMAIN self.prepared)
        <= self.limit

\* has_capacity as it would be if the prepared blocks took no room
has_capacity_pending_only(self) ==
    self.last_loaded - self.last_prepared < self.limit

\* ProversDataPool::has_capacity
has_capacity(self) ==
    self.last_loaded - self.last_prepared + Cardinality(DOMAIN self.prepared)
        < self.limit

\* all_prepared as it would be if it never reported the pool drained
all_prepared_never(self) == FALSE

\* ProversDataPool::all_prepared
all_prepared(self) == DOMAIN self.operations = {}

\* store_to_prove as it would be if last_loaded counted the stored operations
store_to_prove_counting(self, op) ==
    [self EXCEPT !.last_loaded = @ + 1,
                 !.operations = MapInsert(@, op.block_number, op)]

\* ProversDataPool::store_to_prove
store_to_prove(self, op) ==
    LET block == op.block_number
    IN  [self EXCEPT !.last_loaded = block,
                     !.operations = MapInsert(@, block, op)]

\* the loop of take_next_to_prove as it would be if it kept the greater key
RECURSIVE first_from_loaded_greatest(_, _)
first_from_loaded_greatest(keys, acc) ==
    IF keys = <<>> THEN acc
    ELSE first_from_loaded_greatest(Tail(keys),
            IF acc = 0 \/ Head(keys) > acc THEN Head(keys) ELSE acc)

\* the loop of take_next_to_prove over self.operations.keys(), visited in
\* the order keys; acc is first_from_loaded so far
RECURSIVE first_from_loaded(_, _)
first_from_loaded(keys, acc) ==
    IF keys = <<>> THEN acc
    ELSE first_from_loaded(Tail(keys),
            IF acc = 0 \/ Head(keys) < acc THEN Head(keys) ELSE acc)

\* ProversDataPool::take_next_to_prove, the map iterating in the order keys
take_next_to_prove(self, keys) ==
    LET first == first_from_loaded(keys, 0)
    IN  IF first \in DOMAIN self.operations
        THEN [self |-> [self EXCEPT !.operations = MapRemove(@, first)],
              ok |-> TRUE, val |-> self.operations[first]]
        ELSE [self |-> self, ok |-> FALSE, val |-> "data is inconsistent"]

\* the tail of prepare_next as it would be if it keyed the prepared map by
\* the count of prepared blocks
insert_prepared_by_count(self, op, pd) ==
    [self EXCEPT !.last_prepared = @ + 1,
                 !.prepared = MapInsert(@, self.last_prepared + 1, pd)]

\* the tail of prepare_next as it would be without the increment of
\* last_prepared
insert_prepared_uncounted(self, op, pd) ==
    [self EXCEPT !.prepared = MapInsert(@, op.block_number, pd)]

\* the tail of prepare_next: the built data goes into the pool
insert_prepared(self, op, pd) ==
    [self EXCEPT !.last_prepared = @ + 1,
                 !.prepared = MapInsert(@, op.block_number, pd)]

(***************************************************************************)
(* Ledger operations (FranklinOp) and their execution.  The per-operation  *)
(* witness algorithms, the account updates and the storage queries belong  *)
(* to collaborators of pool.rs and are modelled from their contracts.     *)
(***************************************************************************)
Deposit(account, amount) ==
    [type |-> "Deposit", account |-> account, amount |-> amount]

Transfer(from, to, amount, fee, sig_ok) ==
    [type |-> "Transfer", from |-> from, to |-> to, amount |-> amount,
     fee |-> fee, sig_ok |-> sig_ok, sig_data_ok |-> TRUE]

TransferToNew(from, to, amount, fee, sig_ok) ==
    [type |-> "TransferToNew", from |-> from, to |-> to, amount |-> amount,
     fee |-> fee, sig_ok |-> sig_ok, sig_data_ok |-> TRUE]

Withdraw(from, amount, fee, sig_ok) ==
    [type |-> "Withdraw", from |-> from, amount |-> amount, fee |-> fee,
     sig_ok |-> sig_ok, sig_data_ok |-> TRUE]

Close(account, sig_ok) ==
    [type |-> "Close", account |-> account, sig_ok |-> sig_ok,
     sig_data_ok |-> TRUE]

\* the signed operation op with a signature that packs and for which
\* prepare_sig_data gives an error
WithBadSigData(op) == [op EXCEPT !.sig_data_ok = FALSE]

FullExit(account, withdraw_amount) ==
    [type |-> "FullExit", account |-> account,
     withdraw_amount |-> withdraw_amount]

ChangePubKeyOffchain(account, new_pk) ==
    [type |-> "ChangePubKeyOffchain", account |-> account, new_pk |-> new_pk]

Noop == [type |-> "Noop"]

\* chunks an operation takes in a block
Chunks(type) ==
    CASE type = "Noop" -> 1
      [] type = "Deposit" -> 6
      [] type = "TransferToNew" -> 5
      [] type = "Withdraw" -> 6
      [] type = "Close" -> 1
      [] type = "Transfer" -> 2
      [] type = "FullExit" -> 6
      [] type = "ChangePubKeyOffchain" -> 6

\* models::params::block_size_chunks
block_size_chunks == 12

\* the blocks the ledger may commit; the seventh does not pack its
\* signature, the eighth takes more chunks than a block has and
\* prepare_sig_data fails on the ninth
BlockCatalog ==
    << <<Deposit(2, 1), Transfer(1, 2, 1, 1, TRUE)>>,
       <<TransferToNew(1, 2, 1, 1, TRUE)>>,
       <<Withdraw(1, 1, 1, TRUE), Close(2, TRUE), Noop>>,
       <<FullExit(2, Some(0)), ChangePubKeyOffchain(1, 1)>>,
       <<Noop, Noop>>,
       << >>,
       <<Transfer(1, 0, 1, 0, FALSE)>>,
       <<Deposit(2, 1), Deposit(2, 1), Transfer(1, 2, 1, 1, TRUE)>>,
       <<WithBadSigData(Close(2, TRUE))>> >>

\* AccountUpdate values
Create == [kind |-> "Create"]

Delete == [kind |-> "Delete"]

UpdateBalance(v) == [kind |-> "UpdateBalance", new |-> v]

ChangePubKeyHash(v) == [kind |-> "ChangePubKeyHash", new |-> v]

\* Account::apply_update on the account map: one (id, update) pair
apply_update(state, id, upd) ==
    CASE upd.kind = "Create" /\ id \notin DOMAIN state ->
            MapInsert(state, id, DefaultLeaf)
      [] upd.kind = "Delete" /\ id \in DOMAIN state ->
            MapRemove(state, id)
      [] upd.kind = "UpdateBalance" /\ id \in DOMAIN state ->
            [state EXCEPT ![id].bal = upd.new]
      [] upd.kind = "ChangePubKeyHash" /\ id \in DOMAIN state ->
            [state EXCEPT ![id].pk = upd.new]
      [] OTHER -> state

\* models::node::apply_updates: the updates applied in order
RECURSIVE apply_updates(_, _)
apply_updates(state, updates) ==
    IF updates = <<>> THEN state
    ELSE apply_updates(apply_update(state, Head(updates)[1], Head(updates)[2]),
                       Tail(updates))

Bal(state, id) == IF id \in DOMAIN state THEN state[id].bal ELSE 0

\* whether the ledger accepts op in state
Valid(state, op) ==
    CASE op.type = "Deposit" -> TRUE
      [] op.type = "Transfer" ->
            /\ op.from \in DOMAIN state
            /\ op.to \in DOMAIN state
            /\ op.from # op.to
            /\ state[op.from].bal >= op.amount + op.fee
      [] op.type = "TransferToNew" ->
            /\ op.from \in DOMAIN state
            /\ op.to \notin DOMAIN state
            /\ state[op.from].bal >= op.amount + op.fee
      [] op.type = "Withdraw" ->
            /\ op.from \in DOMAIN state
            /\ state[op.from].bal >= op.amount + op.fee
      [] op.type = "Close" ->
            /\ op.account \in DOMAIN state
            /\ op.account # FeeAccount
            /\ state[op.account] = DefaultLeaf
      [] op.type = "FullExit" ->
            op.withdraw_amount.some =>
                /\ op.account \in DOMAIN state
                /\ op.withdraw_amount.val = state[op.account].bal
      [] op.type = "ChangePubKeyOffchain" -> op.account \in DOMAIN state
      [] op.type = "Noop" -> TRUE

\* the account updates the ledger records for op executed in state
OpUpdates(state, op) ==
    CASE op.type = "Deposit" ->
            (IF op.account \in DOMAIN state THEN <<>>
             ELSE << <<op.account, Create>> >>)
            \o << <<op.account,
                    UpdateBalance(Bal(state, op.account) + op.amount)>> >>
      [] op.type = "Transfer" ->
            << <<op.from, UpdateBalance(state[op.from].bal - op.amount - op.fee)>>,
               <<op.to, UpdateBalance(state[op.to].bal + op.amount)>> >>
      [] op.type = "TransferToNew" ->
            << <<op.to, Create>>,
               <<op.from, UpdateBalance(state[op.from].bal - op.amount - op.fee)>>,
               <<op.to, UpdateBalance(op.amount)>> >>
      [] op.type = "Withdraw" ->
            << <<op.from, UpdateBalance(state[op.from].bal - op.amount - op.fee)>> >>
      [] op.type = "Close" -> << <<op.account, Delete>> >>
      [] op.type = "FullExit" ->
            IF op.withdraw_amount.some
            THEN << <<op.account, UpdateBalance(0)>> >> ELSE <<>>
      [] op.type = "ChangePubKeyOffchain" ->
            << <<op.account, ChangePubKeyHash(op.new_pk)>> >>
      [] op.type = "Noop" -> <<>>

\* the fee the ledger collects for op
OpFee(op) ==
    IF op.type \in {"Transfer", "TransferToNew", "Withdraw"} THEN op.fee ELSE 0

\* the updates of a whole block executed from state, fees credited to the
\* fee account at the end; done is the updates so far, fee the fees so far
RECURSIVE BlockUpdates(_, _, _, _)
BlockUpdates(state, ops, done, fee) ==
    IF ops = <<>>
    THEN IF fee = 0 THEN done
         ELSE done \o << <<FeeAccount,
                           UpdateBalance(Bal(state, FeeAccount) + fee)>> >>
    ELSE LET u == OpUpdates(state, Head(ops))
         IN  BlockUpdates(apply_updates(state, u), Tail(ops), done \o u,
                          fee + OpFee(Head(ops)))

\* the chunks the operations of a block take
RECURSIVE BlockChunks(_)
BlockChunks(ops) ==
    IF ops = <<>> THEN 0 ELSE Chunks(Head(ops).type) + BlockChunks(Tail(ops))

RECURSIVE BlockValid(_, _)
BlockValid(state, ops) ==
    IF ops = <<>> THEN TRUE
    ELSE IF ~Valid(state, Head(ops)) THEN FALSE
    ELSE BlockValid(apply_updates(state, OpUpdates(state, Head(ops))), Tail(ops))

(***************************************************************************)
(* Storage.  blocks is the sequence of committed, unverified blocks, each  *)
(* a record of its number, ledger operations, recorded account updates     *)
(* and commit record root.                                                 *)
(***************************************************************************)
\* a <= b on u32 block numbers.  A block number is held as its 32-bit word,
\* which is the number itself up to 2^31 - 1 and a negative integer above:
\* -1 is the word of 4294967295.
u32_le(a, b) == IF (a < 0) = (b < 0) THEN a <= b ELSE b < 0

\* the account map as of block height
RECURSIVE StateAt(_, _)
StateAt(blocks, height) ==
    IF blocks = <<>> THEN GenesisState
    ELSE LET before == StateAt(SubSeq(blocks, 1, Len(blocks) - 1), height)
         IN  IF u32_le(blocks[Len(blocks)].block_number, height)
             THEN apply_updates(before, blocks[Len(blocks)].updates)
             ELSE before

\* the recorded updates of the blocks numbered from + 1 .. to
RECURSIVE DiffBetween(_, _, _)
DiffBetween(blocks, from, to) ==
    IF blocks = <<>> THEN <<>>
    ELSE (IF /\ ~u32_le(Head(blocks).block_number, from)
             /\ u32_le(Head(blocks).block_number, to)
          THEN Head(blocks).updates ELSE <<>>)
         \o DiffBetween(Tail(blocks), from, to)

\* StorageProcessor::load_unverified_commits_after_block
RECURSIVE load_unverified_commits_after_block(_, _, _)
load_unverified_commits_after_block(blocks, after, lim) ==
    IF blocks = <<>> \/ lim <= 0 THEN <<>>
    ELSE IF Head(blocks).block_number > after
         THEN <<[block_number |-> Head(blocks).block_number,
                 fee_account |-> FeeAccount,
                 new_root_hash |-> Head(blocks).new_root_hash]>>
              \o load_unverified_commits_after_block(Tail(blocks), after, lim - 1)
         ELSE load_unverified_commits_after_block(Tail(blocks), after, lim)

\* StorageProcessor::load_state_diff
load_state_diff(blocks, from, to) ==
    LET d == DiffBetween(blocks, from, to)
    IN  IF d = <<>> THEN None ELSE Some(<<to, d>>)

\* StorageProcessor::load_committed_state
load_committed_state(blocks, height) == <<height, StateAt(blocks, height)>>

\* whether the storage holds the block
stores_block(blocks, block_number) ==
    \E j \in 1 .. Len(blocks) : blocks[j].block_number = block_number

\* StorageProcessor::get_block_operations, of a block the storage holds
get_block_operations(blocks, block_number) ==
    LET i == CHOOSE j \in 1 .. Len(blocks) : blocks[j].block_number = block_number
    IN  blocks[i].ops

(***************************************************************************)
(* Maintainer: the account state cache and build_prover_data.              *)
(***************************************************************************)
Ok(v) == [ok |-> TRUE, val |-> v]

Err(e) == [ok |-> FALSE, err |-> e]

\* update_account_state as it would be if it kept the old mapping under the
\* new height
update_account_state_stale(acct, blocks, new_block, fetch_ok) ==
    IF ~fetch_ok
    THEN [ret |-> Err("failed to load committed state"), account_state |-> acct,
          fetch |-> IF acct.some THEN "load_state_diff"
                    ELSE "load_committed_state"]
    ELSE IF acct.some
    THEN [ret |-> Ok("unit"),
          account_state |->
            IF load_state_diff(blocks, acct.val[1], new_block).some
            THEN Some(<<new_block, acct.val[2]>>) ELSE acct,
          fetch |-> "load_state_diff"]
    ELSE [ret |-> Ok("unit"),
          account_state |-> Some(load_committed_state(blocks, new_block)),
          fetch |-> "load_committed_state"]

\* update_account_state as it would be if a failed fetch dropped the cache
update_account_state_dropping(acct, blocks, new_block, fetch_ok) ==
    IF ~fetch_ok
    THEN [ret |-> Err("failed to load committed state"), account_state |-> None,
          fetch |-> IF acct.some THEN "load_state_diff"
                    ELSE "load_committed_state"]
    ELSE IF acct.some
    THEN [ret |-> Ok("unit"),
          account_state |->
            IF load_state_diff(blocks, acct.val[1], new_block).some
            THEN Some(<<new_block,
                        apply_updates(acct.val[2],
                            load_state_diff(blocks, acct.val[1], new_block).val[2])>>)
            ELSE acct,
          fetch |-> "load_state_diff"]
    ELSE [ret |-> Ok("unit"),
          account_state |-> Some(load_committed_state(blocks, new_block)),
          fetch |-> "load_committed_state"]

\* update_account_state as it would be if an initialized cache were reloaded
\* in full
update_account_state_reloading(acct, blocks, new_block, fetch_ok) ==
    IF ~fetch_ok
    THEN [ret |-> Err("failed to load committed state"), account_state |-> acct,
          fetch |-> "load_committed_state"]
    ELSE [ret |-> Ok("unit"),
          account_state |-> Some(load_committed_state(blocks, new_block)),
          fetch |-> "load_committed_state"]

\* Maintainer::update_account_state; acct is self.account_state, fetch_ok
\* whether the storage fetch succeeds.  Returns the Result, the cache and
\* the name of the storage fetch it performed.
update_account_state(acct, blocks, new_block, fetch_ok) ==
    IF acct.some
    THEN LET block == acct.val[1]
             state == acct.val[2]
             state_diff == load_state_diff(blocks, block, new_block)
         IN  IF ~fetch_ok
             THEN [ret |-> Err("failed to load committed state"),
                   account_state |-> acct, fetch |-> "load_state_diff"]
             ELSE IF state_diff.some
             THEN [ret |-> Ok("unit"),
                   account_state |->
                       Some(<<new_block, apply_updates(state, state_diff.val[2])>>),
                   fetch |-> "load_state_diff"]
             ELSE [ret |-> Ok("unit"), account_state |-> acct,
                   fetch |-> "load_state_diff"]
    ELSE IF ~fetch_ok
         THEN [ret |-> Err("failed to load committed state"),
               account_state |-> acct, fetch |-> "load_committed_state"]
         ELSE [ret |-> Ok("unit"),
               account_state |-> Some(load_committed_state(blocks, new_block)),
               fetch |-> "load_committed_state"]

\* Maintainer::build_account_tree
build_account_tree(acct) ==
    [id \in AccountIds |->
        IF id \in DOMAIN acct.val[2] THEN acct.val[2][id] ELSE DefaultLeaf]

\* apply_*_tx: the effect of op on the account tree
apply_tx(tree, op) ==
    CASE op.type = "Deposit" ->
            [tree EXCEPT ![op.account].bal = @ + op.amount]
      [] op.type \in {"Transfer", "TransferToNew"} ->
            [tree EXCEPT ![op.from].bal = @ - op.amount - op.fee,
                         ![op.to].bal = @ + op.amount]
      [] op.type = "Withdraw" ->
            [tree EXCEPT ![op.from].bal = @ - op.amount - op.fee]
      [] op.type = "Close" -> [tree EXCEPT ![op.account] = DefaultLeaf]
      [] op.type = "FullExit" ->
            IF op.withdraw_amount.some
            THEN [tree EXCEPT ![op.account].bal = 0] ELSE tree
      [] op.type = "ChangePubKeyOffchain" ->
            [tree EXCEPT ![op.account].pk = op.new_pk]

\* calculate_*_operations_from_witness and get_pubdata: one entry for each
\* chunk of the operation (a pubdata entry stands for 64 bits)
SubOperations(op) == [i \in 1 .. Chunks(op.type) |-> op.type]

\* the arms of the match as they would be if Withdraw pushed no fee
PushesFee_transfers_only(op) == op.type \in {"Transfer", "TransferToNew"}

\* whether the arm of op pushes a CollectedFee
PushesFee(op) == op.type \in {"Transfer", "TransferToNew", "Withdraw"}

\* whether the arm of op packs a signature
PacksSignature(op) ==
    op.type \in {"Transfer", "TransferToNew", "Withdraw", "Close"}

\* the text of the map_err on serialize_packed in the arm of op
pack_error(op) ==
    IF op.type = "Close" THEN "failed to pack signature"
    ELSE "failed to pack transaction signature"

\* the for loop of build_prover_data as it would be if a signature that
\* does not pack were passed over
RECURSIVE replay_ignoring_signature(_, _)
replay_ignoring_signature(ops, acc) ==
    IF ops = <<>> THEN Ok(acc)
    ELSE LET op == Head(ops)
         IN  IF op.type = "Noop" THEN replay_ignoring_signature(Tail(ops), acc)
             ELSE IF PacksSignature(op) /\ op.sig_ok /\ ~op.sig_data_ok
             THEN Err("prepare_sig_data")
             ELSE replay_ignoring_signature(Tail(ops),
                    [tree |-> apply_tx(acc.tree, op),
                     operations |-> acc.operations \o SubOperations(op),
                     pub_data |-> acc.pub_data \o SubOperations(op),
                     fees |-> IF PushesFee(op)
                              THEN Append(acc.fees, [token |-> 0, amount |-> op.fee])
                              ELSE acc.fees])

\* the for loop of build_prover_data over the block's operations; acc holds
\* the tree, operations, pub_data and fees so far
RECURSIVE replay(_, _)
replay(ops, acc) ==
    IF ops = <<>> THEN Ok(acc)
    ELSE LET op == Head(ops)
         IN  IF op.type = "Noop" THEN replay(Tail(ops), acc)
             ELSE IF PacksSignature(op) /\ ~op.sig_ok
             THEN Err(pack_error(op))
             ELSE IF PacksSignature(op) /\ ~op.sig_data_ok
             THEN Err("prepare_sig_data")
             ELSE replay(Tail(ops),
                    [tree |-> apply_tx(acc.tree, op),
                     operations |-> acc.operations \o SubOperations(op),
                     pub_data |-> acc.pub_data \o SubOperations(op),
                     fees |-> IF PushesFee(op)
                              THEN Append(acc.fees, [token |-> 0, amount |-> op.fee])
                              ELSE acc.fees])

\* WitnessBuilder::extend_pubdata_with_noops on a sequence of chunk entries
extend_with_noops(chunks) ==
    chunks \o [i \in 1 .. block_size_chunks - Len(chunks) |-> "Noop"]

RECURSIVE SumFees(_)
SumFees(fees) ==
    IF fees = <<>> THEN 0 ELSE Head(fees).amount + SumFees(Tail(fees))

\* WitnessBuilder::collect_fees: the tree after the fees are credited
collect_fees(tree, fee_account, fees) ==
    [tree EXCEPT ![fee_account].bal = @ + SumFees(fees)]

\* the root check of build_prover_data as it would be without the assertion
root_matches_unchecked(root_after_fees, commit_operation) == TRUE

\* the root check of build_prover_data
root_matches(root_after_fees, commit_operation) ==
    root_after_fees = commit_operation.new_root_hash

\* the two length assertions of build_prover_data as they would be if they
\* were left out
padded_lengths_unchecked(pubdata, operations_) == TRUE

\* the two length assertions of build_prover_data after the padding
padded_lengths_ok(pubdata, operations_) ==
    /\ 64 * Len(pubdata) = 64 * block_size_chunks
    /\ Len(operations_) = block_size_chunks

\* Maintainer::build_prover_data; acct is self.account_state, state_ok and
\* ops_ok whether the two storage fetches succeed.  Returns the Result
\* (panics as errors named "panic: ..."), the cache afterwards, the storage
\* fetch update_account_state performed and the fee list passed to
\* collect_fees, if it got that far.  block_number - 1 is a u32 subtraction:
\* for block 0 it panics in a build with overflow checks (overflow_checks)
\* and wraps to the word of 4294967295 in a build without them.  The
\* storage gives an error for the operations of a block it does not hold.
build_prover_data(acct, blocks, commit_operation, state_ok, ops_ok, overflow_checks) ==
    LET block_number == commit_operation.block_number
        u == update_account_state(acct, blocks, block_number - 1, state_ok)
        account_tree == build_account_tree(u.account_state)
        initial_root == root_hash(account_tree)
        r == replay(get_block_operations(blocks, block_number),
                    [tree |-> account_tree, operations |-> <<>>,
                     pub_data |-> <<>>, fees |-> <<>>])
        pubdata == extend_with_noops(r.val.pub_data)
        operations_ == extend_with_noops(r.val.operations)
        after_fees == collect_fees(r.val.tree, commit_operation.fee_account,
                                   r.val.fees)
    IN  IF block_number = 0 /\ overflow_checks
        THEN [ret |-> Err("panic: attempt to subtract with overflow"),
              account_state |-> acct, fetch |-> "none", folded |-> None]
        ELSE IF ~u.ret.ok
        THEN [ret |-> u.ret, account_state |-> u.account_state,
              fetch |-> u.fetch, folded |-> None]
        ELSE IF ~ops_ok \/ ~stores_block(blocks, block_number)
        THEN [ret |-> Err("failed to get block operations"),
              account_state |-> u.account_state,
              fetch |-> u.fetch, folded |-> None]
        ELSE IF ~r.ok
        THEN [ret |-> r, account_state |-> u.account_state,
              fetch |-> u.fetch, folded |-> None]
        ELSE IF ~padded_lengths_ok(pubdata, operations_)
        THEN [ret |-> Err("panic: padded length"),
              account_state |-> u.account_state,
              fetch |-> u.fetch, folded |-> None]
        ELSE IF ~root_matches(root_hash(after_fees), commit_operation)
        THEN [ret |-> Err("panic: root mismatch"),
              account_state |-> u.account_state,
              fetch |-> u.fetch, folded |-> Some(r.val.fees)]
        ELSE [ret |-> Ok([public_data_commitment |-> pubdata,
                          old_root |-> initial_root,
                          new_root |-> commit_operation.new_root_hash,
                          validator_address |-> commit_operation.fee_account,
                          operations |-> operations_,
                          validator_account |->
                              after_fees[commit_operation.fee_account]]),
              account_state |-> u.account_state,
              fetch |-> u.fetch, folded |-> Some(r.val.fees)]

\* the builds of the program that build_prover_data can tell apart on the
\* operation: with and without overflow checks where block_number - 1
\* overflows, one otherwise
OverflowChecks(commit_operation) ==
    IF commit_operation.block_number = 0 THEN BOOLEAN ELSE {TRUE}

\* the for loop of take_next_commits
RECURSIVE store_all(_, _)
store_all(self, ops) ==
    IF ops = <<>> THEN self
    ELSE store_all(store_to_prove(self, Head(ops)), Tail(ops))

(***************************************************************************)
(* The pool driver: the pool's methods called in any order.                *)
(***************************************************************************)
\* the root of the account tree built from the genesis state
GenesisRoot == root_hash(build_account_tree(Some(<<0, GenesisState>>)))

\* the storage the driver's Maintainer builds from: the blocks
\* 1 .. MaxBlockNumber committed with no ledger operation in them
PoolChain ==
    [i \in 1 .. MaxBlockNumber |->
        [block_number |-> i, ops |-> <<>>, updates |-> <<>>,
         new_root_hash |-> GenesisRoot]]

\* operations the driver stores, one for each block number, as the commit
\* records of PoolChain carry them
DriverOps ==
    [block_number : 0 .. MaxBlockNumber, fee_account : {FeeAccount},
     new_root_hash : {GenesisRoot}]

Call(name, arg, ret) == [op |-> name, arg |-> arg, ret |-> ret]

\* what last holds after a step that is no observed call
Step == Call("step", "unit", "unit")

ApiStore ==
    /\ nstores < MaxStores
    /\ \E op \in DriverOps :
        /\ SetSelf(store_to_prove(Self, op))
        /\ last' = Call("store_to_prove", op, "unit")
    /\ nstores' = nstores + 1
    /\ UNCHANGED <<maintainer, storage, ready, history>>

\* prepare_next up to the build: take_next_to_prove under the write lock;
\* the Maintainer keeps the operation it was given in cur_op while it builds
\* with no lock held
ApiTake ==
    /\ ~cur_op.some
    /\ \E keys \in Orders(DOMAIN operations) :
        LET r == take_next_to_prove(Self, keys)
        IN  /\ SetSelf(r.self)
            /\ cur_op' = IF r.ok THEN Some(r.val) ELSE cur_op
            /\ last' = Call("take_next_to_prove", keys, [ok |-> r.ok, val |-> r.val])
    /\ UNCHANGED <<account_state, pc, mlock, fetched, result, storage, ready,
                   nstores, history>>

\* prepare_next on the operation taken before: access_storage, whose expect
\* panics when there is no connection, then build_prover_data, which
\* brings the account state cache up to the block below; no lock is held
\* and the pool stays as it is
ApiBuild ==
    /\ cur_op.some
    /\ ~result.some
    /\ \E connect_ok \in BOOLEAN, state_ok \in BOOLEAN, ops_ok \in BOOLEAN,
          overflow_checks \in OverflowChecks(cur_op.val) :
        IF ~connect_ok
        THEN /\ ~state_ok /\ ~ops_ok
             /\ result' = Some(Err("panic: failed to connect to db"))
             /\ UNCHANGED account_state
        ELSE LET b == build_prover_data(account_state, chain, cur_op.val,
                                       state_ok, ops_ok, overflow_checks)
             IN  /\ result' = Some(b.ret)
                 /\ account_state' = b.account_state
    /\ last' = Call("build_prover_data", cur_op.val.block_number, "unit")
    /\ UNCHANGED <<pool, pc, mlock, fetched, cur_op, storage, ready, nstores,
                   history>>

\* the tail of prepare_next after a build that succeeded: last_prepared is
\* incremented and the bundle goes into the pool under the write lock
ApiInsert ==
    /\ cur_op.some
    /\ result.some
    /\ result.val.ok
    /\ SetSelf(insert_prepared(Self, cur_op.val, result.val.val))
    /\ cur_op' = None
    /\ result' = None
    /\ last' = Call("insert", cur_op.val.block_number, "unit")
    /\ UNCHANGED <<account_state, pc, mlock, fetched, storage, ready, nstores,
                   history>>

\* prepare_next is left by the panic or by the `?` on build_prover_data: the
\* operation taken before is dropped and the pool stays as it is
ApiBuildFailed ==
    /\ cur_op.some
    /\ result.some
    /\ ~result.val.ok
    /\ cur_op' = None
    /\ result' = None
    /\ last' = Call("build_failed", cur_op.val.block_number, "unit")
    /\ UNCHANGED <<pool, account_state, pc, mlock, fetched, storage, ready,
                   nstores, history>>

\* the blocks the driver asks for: those the pool holds, pending or
\* prepared, and one it may hold or not
AskedBlocks == DOMAIN operations \cup DOMAIN prepared \cup {MaxBlockNumber}

ApiCleanUp ==
    /\ \E block \in AskedBlocks :
        /\ SetSelf(clean_up(Self, block))
        /\ last' = Call("clean_up", block, "unit")
    /\ UNCHANGED <<maintainer, storage, ready, nstores, history>>

ApiGet ==
    /\ \E block \in AskedBlocks :
        last' = Call("get", block, get(Self, block))
    /\ UNCHANGED <<pool, maintainer, storage, ready, nstores, history>>

ApiHasCapacity ==
    /\ last' = Call("has_capacity", "unit", has_capacity(Self))
    /\ UNCHANGED <<pool, maintainer, storage, ready, nstores, history>>

InitPool ==
    /\ SetSelfInit
    /\ account_state = None
    /\ pc = "idle"
    /\ mlock = "none"
    /\ fetched = <<>>
    /\ cur_op = None
    /\ result = None
    /\ first_block = 1
    /\ chain = PoolChain
    /\ last = Call("new", "unit", "unit")
    /\ ready = {}
    /\ nstores = 0
    /\ loaded = <<>>
    /\ inserted = <<>>

NextPool ==
    \/ ApiStore
    \/ ApiTake
    \/ ApiBuild
    \/ ApiInsert
    \/ ApiBuildFailed
    \/ ApiCleanUp
    \/ ApiGet
    \/ ApiHasCapacity

SpecPool == InitPool /\ [][NextPool]_vars

(***************************************************************************)
(* The storage commits blocks.                                             *)
(***************************************************************************)
HeadState == StateAt(chain, first_block + Len(chain))

\* a root other than the one given
WrongRoot(root) == [root EXCEPT ![FeeAccount].bal = @ + 1]

\* the storage commits one more block, of the ledger operations ops; its
\* commit record carries the root after the block if honest
CommitBlock(ops, honest) ==
    LET updates == BlockUpdates(HeadState, ops, <<>>, 0)
        root == root_hash(build_account_tree(
                    Some(<<0, apply_updates(HeadState, updates)>>)))
    IN  /\ BlockValid(HeadState, ops)
        /\ ~honest => BlockChunks(ops) <= block_size_chunks
        /\ chain' = Append(chain,
                [block_number |-> first_block + Len(chain),
                 ops |-> ops, updates |-> updates,
                 new_root_hash |-> IF honest THEN root ELSE WrongRoot(root)])

StorageCommit ==
    /\ Len(chain) < MaxBlocks
    /\ \E k \in 1 .. Len(BlockCatalog), honest \in BOOLEAN :
        CommitBlock(BlockCatalog[k], honest)
    /\ last' = Step
    /\ UNCHANGED <<pool, maintainer, first_block, ready, nstores, history>>

\* the storage commits a block with no ledger operation in it, up to a
\* backlog of more blocks than the pool's window takes, and no more than
\* MaxOutstanding blocks ahead of the bundles inserted
StorageCommitEmpty ==
    /\ Len(chain) < MaxBacklog
    /\ Len(chain) - Len(inserted) < MaxOutstanding
    /\ CommitBlock(<<>>, TRUE)
    /\ last' = Step
    /\ UNCHANGED <<pool, maintainer, first_block, ready, nstores, history>>

(***************************************************************************)
(* The Maintainer thread: maintain, take_next_commits, prepare_next.       *)
(***************************************************************************)
\* maintain as it would be if an Err were passed over and the loop went on
expect_passing(ret, next) == next

\* maintain: the expect on the Result of take_next_commits and of
\* prepare_next; the place the thread is at afterwards, next or panicked
expect(ret, next) == IF ret.ok THEN next ELSE "failed"

\* maintain: self.has_capacity()
MaintainHasCapacity ==
    /\ pc = "maintain"
    /\ pc' = IF has_capacity(Self) THEN "take_lock" ELSE "prepare"
    /\ last' = Step
    /\ UNCHANGED <<pool, account_state, mlock, fetched, cur_op, result,
                   storage, ready, nstores, history>>

\* take_next_commits: self.data.read()
TakeLock ==
    /\ pc = "take_lock"
    /\ mlock' = "read"
    /\ pc' = "take_fetch"
    /\ last' = Step
    /\ UNCHANGED <<pool, account_state, fetched, cur_op, result, storage,
                   ready, nstores, history>>

\* take_next_commits: access_storage, whose expect panics the thread when
\* there is no connection, then load_unverified_commits_after_block, which
\* may fail; the read guard is dropped as the function is left
TakeFetch ==
    /\ pc = "take_fetch"
    /\ \E connect_ok \in BOOLEAN, fetch_ok \in BOOLEAN :
        IF ~connect_ok
        THEN /\ ~fetch_ok
             /\ result' = [ret |-> Err("panic: failed to connect to db")]
             /\ pc' = "failed"
             /\ mlock' = "none"
             /\ UNCHANGED fetched
        ELSE IF fetch_ok
        THEN /\ fetched' = load_unverified_commits_after_block(
                                chain, last_loaded, limit)
             /\ pc' = "take_unlock"
             /\ UNCHANGED <<mlock, result>>
        ELSE /\ result' = [ret |-> Err("failed to read commit operations")]
             /\ pc' = expect(result'.ret, "prepare")
             /\ mlock' = "none"
             /\ UNCHANGED fetched
    /\ last' = Step
    /\ UNCHANGED <<pool, account_state, cur_op, storage, ready, nstores, history>>

\* take_next_commits: the read guard is dropped at the end of the block
TakeUnlock ==
    /\ pc = "take_unlock"
    /\ mlock' = "none"
    /\ pc' = IF fetched = <<>> THEN "prepare" ELSE "take_store"
    /\ last' = Step
    /\ UNCHANGED <<pool, account_state, fetched, cur_op, result, storage,
                   ready, nstores, history>>

\* take_next_commits: the fetched operations stored under the write lock
TakeStore ==
    /\ pc = "take_store"
    /\ mlock = "none"
    /\ SetSelf(store_all(Self, fetched))
    /\ loaded' = loaded \o [i \in 1 .. Len(fetched) |-> fetched[i].block_number]
    /\ fetched' = <<>>
    /\ pc' = "prepare"
    /\ last' = Step
    /\ UNCHANGED <<account_state, mlock, cur_op, result, storage, ready,
                   nstores, inserted>>

\* prepare_next: all_prepared and take_next_to_prove under the write lock
PrepareTake ==
    /\ pc = "prepare"
    /\ mlock = "none"
    /\ IF all_prepared(Self)
       THEN /\ pc' = "sleep"
            /\ last' = Step
            /\ UNCHANGED <<pool, cur_op, result>>
       ELSE \E keys \in Orders(DOMAIN operations) :
            LET r == take_next_to_prove(Self, keys)
            IN  /\ SetSelf(r.self)
                /\ last' = Step
                /\ IF r.ok
                   THEN /\ cur_op' = Some(r.val)
                        /\ pc' = "build"
                        /\ UNCHANGED result
                   ELSE /\ result' = [ret |-> Err(r.val)]
                        /\ pc' = expect(result'.ret, "sleep")
                        /\ UNCHANGED cur_op
    /\ UNCHANGED <<account_state, mlock, fetched, storage, ready, nstores, history>>

\* prepare_next: access_storage, whose expect panics the thread when there
\* is no connection, then build_prover_data, all outside the lock
Build ==
    /\ pc = "build"
    /\ \E connect_ok \in BOOLEAN, state_ok \in BOOLEAN, ops_ok \in BOOLEAN,
          overflow_checks \in OverflowChecks(cur_op.val) :
        IF ~connect_ok
        THEN /\ ~state_ok /\ ~ops_ok
             /\ result' = [ret |-> Err("panic: failed to connect to db"),
                           connect_ok |-> FALSE, state_ok |-> FALSE,
                           ops_ok |-> FALSE, fetch |-> "none",
                           folded |-> None]
             /\ pc' = "failed"
             /\ last' = Step
             /\ UNCHANGED account_state
        ELSE LET r == build_prover_data(account_state, chain, cur_op.val,
                                       state_ok, ops_ok, overflow_checks)
             IN  /\ account_state' = r.account_state
                 /\ result' = [ret |-> r.ret, connect_ok |-> TRUE,
                               state_ok |-> state_ok, ops_ok |-> ops_ok,
                               fetch |-> r.fetch, folded |-> r.folded]
                 /\ pc' = "built"
                 /\ last' = Step
    /\ UNCHANGED <<pool, mlock, fetched, cur_op, storage, ready, nstores, history>>

\* prepare_next: whether the result of build_prover_data lets it go on
build_succeeded(res) == res.ret.ok

\* prepare_next: the `?` on the result, then the insert under the write lock
PrepareInsert ==
    /\ pc = "built"
    /\ mlock = "none"
    /\ IF build_succeeded(result)
       THEN /\ SetSelf(insert_prepared(Self, cur_op.val, result.ret.val))
            /\ ready' = ready \cup {cur_op.val.block_number}
            /\ pc' = "sleep"
            /\ last' = Step
            /\ inserted' = Append(inserted, cur_op.val.block_number)
       ELSE /\ pc' = expect(result.ret, "sleep")
            /\ last' = Step
            /\ UNCHANGED <<pool, ready, inserted>>
    /\ UNCHANGED <<account_state, mlock, fetched, cur_op, result, storage,
                   nstores, loaded>>

\* maintain: thread::sleep, then the next round
Sleep ==
    /\ pc = "sleep"
    /\ pc' = "maintain"
    /\ last' = Step
    /\ UNCHANGED <<pool, account_state, mlock, fetched, cur_op, result,
                   storage, ready, nstores, history>>

(***************************************************************************)
(* The consumer: get under the read lock, clean_up under the write lock.   *)
(***************************************************************************)
\* the blocks the consumer asks for: every block the storage has committed
\* and, while it has committed fewer than MaxBlocks, those up to MaxBlocks
ConsumerBlocks ==
    first_block ..
        first_block + (IF Len(chain) > MaxBlocks THEN Len(chain) ELSE MaxBlocks) - 1

ConsumerGet ==
    /\ \E block \in ConsumerBlocks :
        last' = Call("get", block, get(Self, block))
    /\ UNCHANGED <<pool, maintainer, storage, ready, nstores, history>>

ConsumerCleanUp ==
    /\ mlock = "none"
    /\ \E block \in ConsumerBlocks :
        /\ SetSelf(clean_up(Self, block))
        /\ ready' = ready \ {block}
        /\ last' = Step
    /\ UNCHANGED <<maintainer, storage, nstores, history>>

Init ==
    /\ SetSelfInit
    /\ account_state = None
    /\ pc = "maintain"
    /\ mlock = "none"
    /\ fetched = <<>>
    /\ cur_op = None
    /\ result = None
    /\ first_block \in {1, MaxFirstBlock}
    /\ chain = <<>>
    /\ last = Call("new", "unit", "unit")
    /\ ready = {}
    /\ nstores = 0
    /\ loaded = <<>>
    /\ inserted = <<>>

Next ==
    \/ StorageCommit
    \/ MaintainHasCapacity
    \/ TakeLock
    \/ TakeFetch
    \/ TakeUnlock
    \/ TakeStore
    \/ PrepareTake
    \/ Build
    \/ PrepareInsert
    \/ Sleep
    \/ ConsumerGet
    \/ ConsumerCleanUp

Spec == Init /\ [][Next]_vars

(***************************************************************************)
(* The Maintainer against a storage that builds up a backlog of blocks     *)
(* from block 1 on, the consumer cleaning up any block as it likes.  The   *)
(* Maintainer is a thread of its own that loops and sleeps, so it is       *)
(* taken weakly fair.                                                      *)
(***************************************************************************)
MaintainerNext ==
    \/ MaintainHasCapacity
    \/ TakeLock
    \/ TakeFetch
    \/ TakeUnlock
    \/ TakeStore
    \/ PrepareTake
    \/ Build
    \/ PrepareInsert
    \/ Sleep

InitBacklog ==
    /\ SetSelfInit
    /\ account_state = None
    /\ pc = "maintain"
    /\ mlock = "none"
    /\ fetched = <<>>
    /\ cur_op = None
    /\ result = None
    /\ first_block = 1
    /\ chain = <<>>
    /\ last = Call("new", "unit", "unit")
    /\ ready = {}
    /\ nstores = 0
    /\ loaded = <<>>
    /\ inserted = <<>>

NextBacklog ==
    \/ StorageCommitEmpty
    \/ MaintainerNext
    \/ ConsumerCleanUp

SpecBacklog == InitBacklog /\ [][NextBacklog]_vars /\ WF_vars(MaintainerNext)

(***************************************************************************)
(* The same as Spec with the Maintainer thread taken weakly fair and a     *)
(* consumer that goes on cleaning up what is prepared: clean_up waits for  *)
(* the write lock, which the Maintainer frees again and again, so it is    *)
(* taken strongly fair.  The first unverified commit may lie above limit.  *)
(***************************************************************************)
CleanUpPrepared == ConsumerCleanUp /\ prepared' # prepared

InitFair ==
    /\ SetSelfInit
    /\ account_state = None
    /\ pc = "maintain"
    /\ mlock = "none"
    /\ fetched = <<>>
    /\ cur_op = None
    /\ result = None
    /\ first_block \in {1, MaxFirstBlock + 1}
    /\ chain = <<>>
    /\ last = Call("new", "unit", "unit")
    /\ ready = {}
    /\ nstores = 0
    /\ loaded = <<>>
    /\ inserted = <<>>

SpecFair ==
    /\ InitFair
    /\ [][Next]_vars
    /\ WF_vars(MaintainerNext)
    /\ SF_vars(CleanUpPrepared)

(***************************************************************************)
(* Claims about the pool's methods, checked under SpecPool.                *)
(***************************************************************************)
Capacity == last_loaded - last_prepared + Cardinality(DOMAIN prepared)

MinKey(S) == CHOOSE k \in S : \A j \in S : k <= j

\* C2: take_next_to_prove on a non-empty pending map returns the operation
\* stored under the smallest pending block number and removes exactly that
\* entry; on an empty pending map it returns the "data is inconsistent"
\* error and leaves the pool unchanged; whatever the map's iteration order.
C2_TakeReturnsMinimum ==
    [][last'.op = "take_next_to_prove" =>
        IF DOMAIN operations # {}
        THEN /\ last'.ret.ok
             /\ last'.ret.val = operations[MinKey(DOMAIN operations)]
             /\ operations' = MapRemove(operations, MinKey(DOMAIN operations))
             /\ UNCHANGED <<last_prepared, last_loaded, limit, prepared>>
        ELSE /\ ~last'.ret.ok
             /\ last'.ret.val = "data is inconsistent"
             /\ UNCHANGED pool]_vars

\* C3: has_capacity returns false exactly when
\* last_loaded - last_prepared + prepared.len() >= limit, true otherwise,
\* and changes no pool field.
C3_HasCapacityIffBelowLimit ==
    [][last'.op = "has_capacity" =>
        /\ (last'.ret = FALSE) <=> (Capacity >= limit)
        /\ (last'.ret = TRUE) <=> (Capacity < limit)
        /\ UNCHANGED pool]_vars

\* C3 witness: has_capacity answered false on a pool that holds a prepared
\* entry after stores, a take and an insert.
C3_Witness ==
    /\ last.op = "has_capacity"
    /\ last.ret = FALSE
    /\ last_prepared > 0
    /\ DOMAIN prepared # {}

\* C4: after a store_to_prove call (in particular every call of a strictly
\* increasing sequence) last_loaded is the stored operation's block number,
\* the operation is pending under that number, and last_prepared, limit and
\* the prepared map are unchanged.
C4_StoreAdvancesLastLoaded ==
    [][last'.op = "store_to_prove" =>
        /\ last_loaded' = last'.arg.block_number
        /\ last'.arg.block_number \in DOMAIN operations'
        /\ operations'[last'.arg.block_number] = last'.arg
        /\ UNCHANGED <<last_prepared, limit, prepared>>]_vars

\* C4 witness: the second call of a strictly increasing sequence of stores.
C4_Witness ==
    /\ last.op = "store_to_prove"
    /\ nstores = 2
    /\ last_loaded = last.arg.block_number
    /\ \E b \in DOMAIN operations : b < last_loaded

\* C5: clean_up(block) removes the prepared entry of that block, if any, and
\* nothing else: an absent block leaves the map as it is, a second call
\* changes nothing more, and the pending map, last_loaded, last_prepared,
\* limit and every other prepared entry are unchanged.
C5_CleanUpRemovesOnlyThatBlock ==
    [][last'.op = "clean_up" =>
        /\ DOMAIN prepared' = DOMAIN prepared \ {last'.arg}
        /\ \A k \in DOMAIN prepared' : prepared'[k] = prepared[k]
        /\ (last'.arg \notin DOMAIN prepared => prepared' = prepared)
        /\ clean_up(Self', last'.arg) = Self'
        /\ UNCHANGED <<operations, last_loaded, last_prepared, limit>>]_vars

\* C5 witness: clean_up of the last loaded block after two blocks were
\* prepared, the other prepared entry still in place.
C5_Witness ==
    /\ last.op = "clean_up"
    /\ last.arg = last_loaded
    /\ last_prepared = 2
    /\ Cardinality(DOMAIN prepared) = 1
    /\ last.arg \notin DOMAIN prepared

(***************************************************************************)
(* Claims about the Maintainer loop, checked under Spec.                   *)
(***************************************************************************)
\* the storage's record of block b
BlockOf(b) == chain[CHOOSE i \in 1 .. Len(chain) : chain[i].block_number = b]

\* the post-fee root of block b replayed on a from-scratch load of the
\* state below it
ReplayRoot(b) ==
    LET tree == build_account_tree(Some(load_committed_state(chain, b - 1)))
        r == replay(BlockOf(b).ops,
                    [tree |-> tree, operations |-> <<>>, pub_data |-> <<>>,
                     fees |-> <<>>])
    IN  root_hash(collect_fees(r.val.tree, FeeAccount, r.val.fees))

RECURSIVE AllSignaturesPack(_)
AllSignaturesPack(ops) ==
    IF ops = <<>> THEN TRUE
    ELSE IF PacksSignature(Head(ops))
            /\ ~(Head(ops).sig_ok /\ Head(ops).sig_data_ok) THEN FALSE
    ELSE AllSignaturesPack(Tail(ops))

\* C1: prepared.len() + (last_loaded - last_prepared) is at most limit in
\* every state reachable by Maintainer cycles and consumer clean_up calls.
C1_LookAheadWithinLimit ==
    Cardinality(DOMAIN prepared) + (last_loaded - last_prepared) <= limit

\* C6: get changes no pool field, and get(b) returns a bundle exactly when
\* the preparation of block b completed and no clean_up(b) happened since;
\* for a block that is pending or being built it returns None.
C6_GetReturnsReadyBlocks ==
    [][last'.op = "get" =>
        /\ UNCHANGED pool
        /\ last'.ret.some <=> last'.arg \in ready
        /\ last'.arg \in DOMAIN operations => ~last'.ret.some
        /\ (pc \in {"build", "built"} /\ cur_op.val.block_number = last'.arg)
                => ~last'.ret.some]_vars

\* C6 witness: get returned the bundle of the second prepared block after
\* the first was cleaned up.
C6_Witness ==
    /\ last.op = "get"
    /\ last.ret.some
    /\ last_prepared = 2
    /\ DOMAIN prepared = {last.arg}

\* C7: every entry of the prepared map has new_root equal to the commit
\* record's root and to the root computed by replay plus fee folding; a
\* block whose commit record's root differs is never inserted.
C7_PreparedRootsMatch ==
    \A b \in DOMAIN prepared :
        /\ prepared[b].new_root = BlockOf(b).new_root_hash
        /\ prepared[b].new_root = ReplayRoot(b)

\* C7 witness: build_prover_data failed on the root check of a block whose
\* commit record holds another root, after an earlier block was prepared.
C7_Witness ==
    /\ pc = "failed"
    /\ result.ret.err = "panic: root mismatch"
    /\ BlockOf(cur_op.val.block_number).new_root_hash
            # ReplayRoot(cur_op.val.block_number)
    /\ cur_op.val.block_number \notin DOMAIN prepared
    /\ DOMAIN prepared # {}

\* C8: an entry is inserted into the prepared map, and last_prepared is
\* incremented, only after every step of build_prover_data succeeded for
\* that block; when a step fails nothing is inserted for the block and
\* last_prepared stays.
C8_InsertOnlyAfterSuccessfulBuild ==
    [][/\ (last_prepared' # last_prepared \/ prepared' # prepared) =>
            \/ DOMAIN prepared' \subseteq DOMAIN prepared
                    /\ last_prepared' = last_prepared
            \/ /\ pc = "built"
               /\ result.state_ok
               /\ result.ops_ok
               /\ AllSignaturesPack(BlockOf(cur_op.val.block_number).ops)
               /\ DOMAIN prepared'
                    = DOMAIN prepared \cup {cur_op.val.block_number}
               /\ Len(prepared'[cur_op.val.block_number].operations)
                    = block_size_chunks
               /\ Len(prepared'[cur_op.val.block_number].public_data_commitment)
                    = block_size_chunks
               /\ BlockOf(cur_op.val.block_number).new_root_hash
                    = ReplayRoot(cur_op.val.block_number)
               /\ last_prepared' = last_prepared + 1
       /\ (pc = "built" /\ pc' = "failed") =>
            /\ UNCHANGED pool
            /\ cur_op.val.block_number \notin DOMAIN prepared
            /\ cur_op.val.block_number \notin ready]_vars

\* C8 witness: the build of a block failed on packing a signature after an
\* earlier block was inserted; the failed block is not in the prepared map.
C8_Witness ==
    /\ pc = "failed"
    /\ result.ret.err = "failed to pack transaction signature"
    /\ last_prepared = 1
    /\ cur_op.val.block_number \notin DOMAIN prepared

\* C9: when update_account_state(target) finds a diff from the cached
\* height to target, the cache afterwards is (target, M), M the mapping a
\* full load at target returns; when the fetch fails the cache is as before.
C9_CacheEqualsReload ==
    [][(pc = "build" /\ pc' = "built" /\ account_state.some) =>
        LET target == cur_op.val.block_number - 1
        IN  /\ (result'.state_ok
                    /\ load_state_diff(chain, account_state.val[1], target).some)
                => account_state' = Some(load_committed_state(chain, target))
            /\ ~result'.state_ok => account_state' = account_state]_vars

\* C9 witness: the second block was built, its update_account_state call
\* having applied a diff to the cache.
C9_Witness ==
    /\ pc = "built"
    /\ last_prepared = 1
    /\ result.state_ok
    /\ account_state.val[1] = cur_op.val.block_number - 1
    /\ account_state.val[1] > first_block - 1
    /\ account_state.val[2] # GenesisState

\* C10: the account state cache is None until the first
\* update_account_state call, is never reset to None afterwards, and its
\* height never decreases.
C10_CacheHeightMonotone ==
    [][/\ account_state.some =>
            /\ account_state'.some
            /\ account_state'.val[1] >= account_state.val[1]
       /\ (~account_state.some /\ account_state'.some) =>
            /\ pc = "build"
            /\ account_state'.val[1] = cur_op.val.block_number - 1]_vars

\* C10 witness: the cache, initialized for the first block, has advanced
\* to the height below the second block.
C10_Witness ==
    /\ account_state.some
    /\ last_prepared = 1
    /\ pc = "built"
    /\ account_state.val[1] = first_block

(***************************************************************************)
(* Lock discipline of take_next_commits.                                   *)
(***************************************************************************)
\* C11: the storage call load_unverified_commits_after_block is made while
\* the Maintainer holds neither the read nor the write lock of the pool (the
\* read lock is released before the call), so that a clean_up of the
\* consumer is never kept waiting for the duration of the fetch.
C11_FetchOutsideLocks == pc = "take_fetch" => mlock = "none"

(***************************************************************************)
(* The bundles of build_prover_data.                                       *)
(***************************************************************************)
\* the chunks of the operations of a block that are not Noop
RECURSIVE ReplayedChunks(_)
ReplayedChunks(ops) ==
    IF ops = <<>> THEN 0
    ELSE (IF Head(ops).type = "Noop" THEN 0 ELSE Chunks(Head(ops).type))
         + ReplayedChunks(Tail(ops))

\* pd has block_size_chunks sub-operations and 64 bits of pubdata for each
FullBlock(pd) ==
    /\ Len(pd.operations) = block_size_chunks
    /\ 64 * Len(pd.public_data_commitment) = 64 * block_size_chunks

\* C12: every bundle build_prover_data returns has exactly block_size_chunks
\* sub-operations and 64 * block_size_chunks of pubdata, whatever the block
\* holds (only Noops and no operation included); a block whose padded
\* lengths differ makes the build fail and nothing is returned.
C12_PaddedToBlockSize ==
    /\ \A b \in DOMAIN prepared : FullBlock(prepared[b])
    /\ pc = "built" =>
        /\ result.ret.ok => FullBlock(result.ret.val)
        /\ ReplayedChunks(BlockOf(cur_op.val.block_number).ops)
                > block_size_chunks
            => ~result.ret.ok

\* C12 witness: a block of Noops only has been prepared, and the build of
\* the next block, larger than block_size_chunks, failed on its padded
\* lengths.
C12_Witness ==
    /\ \E b \in DOMAIN prepared : BlockOf(b).ops = <<Noop, Noop>>
    /\ pc = "built"
    /\ result.ret = Err("panic: padded length")
    /\ cur_op.val.block_number \notin DOMAIN prepared

(***************************************************************************)
(* Fee collection.                                                         *)
(***************************************************************************)
\* one (token, amount) entry for each operation of ops whose type is in
\* types, in the order of ops; an operation without a fee counts as 0
RECURSIVE FeeEntries(_, _)
FeeEntries(ops, types) ==
    IF ops = <<>> THEN <<>>
    ELSE (IF Head(ops).type \in types
          THEN <<[token |-> 0,
                  amount |-> IF "fee" \in DOMAIN Head(ops)
                             THEN Head(ops).fee ELSE 0]>>
          ELSE <<>>)
         \o FeeEntries(Tail(ops), types)

\* C13 as stated: the fee list passed to collect_fees has exactly one entry
\* for each Transfer, TransferToNew, Withdraw and Close of the block, in
\* block order, and none for the other operations.
C13_FeePerSignedOperation ==
    (pc = "built" /\ result.folded.some) =>
        result.folded.val =
            FeeEntries(BlockOf(cur_op.val.block_number).ops,
                       {"Transfer", "TransferToNew", "Withdraw", "Close"})

\* C13, amended: the fee list passed to collect_fees has exactly one
\* (token, amount) entry for each Transfer, TransferToNew and Withdraw of the
\* block, in block order, and none for Close, Deposit, FullExit,
\* ChangePubKeyOffchain or Noop.
C13_FeePerPayingOperation ==
    (pc = "built" /\ result.folded.some) =>
        result.folded.val =
            FeeEntries(BlockOf(cur_op.val.block_number).ops,
                       {"Transfer", "TransferToNew", "Withdraw"})

\* C13 witness: the block of a Withdraw, a Close and a Noop was built and
\* one fee, the Withdraw's, was passed to collect_fees.
C13_Witness ==
    /\ pc = "built"
    /\ result.ret.ok
    /\ BlockOf(cur_op.val.block_number).ops
            = <<Withdraw(1, 1, 1, TRUE), Close(2, TRUE), Noop>>
    /\ result.folded = Some(<<[token |-> 0, amount |-> 1]>>)

(***************************************************************************)
(* The cases of update_account_state.                                      *)
(***************************************************************************)
\* C14: update_account_state(target) for the block being built: with no
\* cache it loads the full state at target and caches it; with a cache at
\* height h it fetches the diff from h to target and never the full state;
\* a diff gives the cache (target, cached map with the diff applied); no
\* diff leaves the cache exactly as it was; a failed fetch gives a storage
\* error and leaves the cache exactly as it was.
C14_UpdateAccountStateCases ==
    [][(pc = "build" /\ pc' = "built" /\ result'.connect_ok) =>
        LET target == cur_op.val.block_number - 1
            diff == load_state_diff(chain, account_state.val[1], target)
        IN  /\ ~result'.state_ok =>
                /\ account_state' = account_state
                /\ result'.ret = Err("failed to load committed state")
            /\ (~account_state.some /\ result'.state_ok) =>
                /\ result'.fetch = "load_committed_state"
                /\ account_state' = Some(<<target, StateAt(chain, target)>>)
            /\ account_state.some => result'.fetch = "load_state_diff"
            /\ (account_state.some /\ result'.state_ok /\ diff.some) =>
                account_state' =
                    Some(<<target,
                           apply_updates(account_state.val[2], diff.val[2])>>)
            /\ (account_state.some /\ result'.state_ok /\ ~diff.some) =>
                account_state' = account_state]_vars

\* C14 witness: the second block was built after a first block without
\* account updates: the diff fetch found nothing and the cache is still the
\* one loaded for the first block.
C14_Witness ==
    /\ pc = "built"
    /\ last_prepared = 1
    /\ result.state_ok
    /\ result.fetch = "load_state_diff"
    /\ account_state = Some(<<first_block - 1, GenesisState>>)
    /\ cur_op.val.block_number - 1 > first_block - 1

(***************************************************************************)
(* prepare_next.                                                           *)
(***************************************************************************)
\* C15: prepare_next with no pending operation returns Ok and leaves the
\* pool as it is; otherwise it removes the pending operation of the lowest
\* block number and, when the build succeeds, adds exactly 1 to
\* last_prepared and inserts the bundle under that operation's block
\* number; the insert ends the cycle, so a cycle prepares at most one block;
\* last_prepared is the number of blocks ever inserted into prepared, hence
\* at least the size of prepared.
C15_PrepareNextOneBlock ==
    [][/\ (pc = "prepare" /\ pc' # "prepare") =>
            IF DOMAIN operations = {}
            THEN pc' = "sleep" /\ UNCHANGED <<pool, cur_op, inserted>>
            ELSE LET lowest == MinKey(DOMAIN operations)
                 IN  /\ pc' = "build"
                     /\ cur_op' = Some(operations[lowest])
                     /\ operations' = MapRemove(operations, lowest)
                     /\ UNCHANGED <<last_prepared, last_loaded, prepared,
                                    inserted>>
       /\ (pc = "built" /\ pc' # "built") =>
            IF result.ret.ok
            THEN /\ last_prepared' = last_prepared + 1
                 /\ prepared' = MapInsert(prepared, cur_op.val.block_number,
                                          result.ret.val)
                 /\ inserted' = Append(inserted, cur_op.val.block_number)
                 /\ pc' = "sleep"
            ELSE UNCHANGED <<pool, inserted>>
       /\ (last_prepared' # last_prepared
                \/ DOMAIN prepared' \ DOMAIN prepared # {})
            => (pc = "built" /\ pc' = "sleep")
       /\ pc = "sleep" => pc' \in {"sleep", "maintain"}
       /\ last_prepared' = Len(inserted')
       /\ last_prepared' >= Cardinality(DOMAIN prepared')]_vars

\* C15 witness: two blocks have been inserted, the consumer has cleaned one
\* up, and the Maintainer sleeps at the end of the second block's cycle.
C15_Witness ==
    /\ pc = "sleep"
    /\ last_prepared = 2
    /\ Len(inserted) = 2
    /\ Cardinality(DOMAIN prepared) = 1
    /\ DOMAIN operations = {}

(***************************************************************************)
(* Fail-stop.                                                              *)
(***************************************************************************)
\* take_next_commits or prepare_next has returned an Err to maintain
Failed == result # None /\ ~result.ret.ok /\ pc # "built"

\* C16: once take_next_commits or prepare_next has failed, the Maintainer
\* takes no further step: no retry, no remaining step of the cycle, no new
\* cycle, no change of the pool; only get and clean_up of the consumer act
\* on the pool afterwards.
C16_FailStop ==
    [][Failed =>
        /\ UNCHANGED <<maintainer, history, last_prepared, last_loaded, limit,
                       operations>>
        /\ \/ prepared' = prepared
           \/ \E block \in DOMAIN prepared :
                prepared' = MapRemove(prepared, block)]_vars

\* C16 witness: the build of the second block failed, and afterwards the
\* consumer cleaned the first block up and asked for it again.
C16_Witness ==
    /\ pc = "failed"
    /\ ~result.ret.ok
    /\ last_prepared = 1
    /\ prepared = EmptyMap
    /\ last.op = "get"

(***************************************************************************)
(* take_next_to_prove inside prepare_next.                                 *)
(***************************************************************************)
\* C17: in no run of the Maintainer loop, whatever the consumer does in
\* between, does take_next_to_prove return "data is inconsistent": the
\* all_prepared check and the take are one critical section, and the take
\* succeeds whenever an operation is pending.
C17_TakeNeverInconsistent ==
    /\ result # None => result.ret # Err("data is inconsistent")
    /\ pc = "prepare" =>
        \A keys \in Orders(DOMAIN operations) :
            all_prepared(Self) \/ take_next_to_prove(Self, keys).ok

\* C17 witness: prepare_next took the first of two pending operations.
C17_Witness ==
    /\ pc = "build"
    /\ cur_op.some
    /\ Cardinality(DOMAIN operations) = 1
    /\ cur_op.val.block_number < MinKey(DOMAIN operations)

(***************************************************************************)
(* The capacity window.                                                    *)
(***************************************************************************)
\* C18: in every state of the Maintainer loop in which no block is being
\* built, last_loaded - last_prepared is the number of pending operations,
\* so that the quantity has_capacity compares with limit is the number of
\* pending operations plus the number of prepared entries not cleaned up,
\* whatever the block number of the first unverified commit is.
C18_WindowCountsPending ==
    pc \notin {"build", "built", "failed"} =>
        /\ last_loaded - last_prepared = Cardinality(DOMAIN operations)
        /\ Capacity = Cardinality(DOMAIN operations)
                        + Cardinality(DOMAIN prepared)

(***************************************************************************)
(* Throttling of take_next_commits, over SpecBacklog.                      *)
(***************************************************************************)
\* the greatest block number stored so far, 0 if none
RECURSIVE MaxOf(_)
MaxOf(seq) ==
    IF seq = <<>> THEN 0
    ELSE IF Head(seq) > MaxOf(Tail(seq)) THEN Head(seq) ELSE MaxOf(Tail(seq))

\* the Maintainer fetches only in a cycle that found capacity, after
\* last_loaded and at most limit commits, and what it stores lies above
\* every block loaded before
FetchThrottled ==
    /\ (pc = "take_fetch" /\ pc' = "take_unlock") =>
        /\ has_capacity(Self)
        /\ fetched' = load_unverified_commits_after_block(chain, last_loaded,
                                                          limit)
        /\ Len(fetched') <= limit
    /\ loaded' # loaded =>
        /\ pc = "take_store"
        /\ Len(loaded') > Len(loaded)
        /\ SubSeq(loaded', 1, Len(loaded)) = loaded
        /\ \A i \in Len(loaded) + 1 .. Len(loaded') :
              /\ loaded'[i] > MaxOf(SubSeq(loaded', 1, i - 1))
              /\ loaded'[i] \in DOMAIN operations'
        /\ last_loaded' = loaded'[Len(loaded')]
    /\ last_loaded' # last_loaded => loaded' # loaded

\* no clean_up call has removed a prepared block; it holds in particular
\* when the consumer never calls clean_up
NothingCleaned == \A i \in 1 .. Len(inserted) : inserted[i] \in DOMAIN prepared

\* the storage holds limit or more unverified commits
FullWindow == Len(chain) >= limit

\* C19 as stated: FetchThrottled, and with a consumer that never cleans up
\* and a Maintainer that goes on cycling (no step of it fails),
\* has_capacity() is false forever after finitely many cycles, last_loaded
\* and the blocks loaded never changing again.
C19_LoadingStalls ==
    /\ [][FetchThrottled]_vars
    /\ []NothingCleaned => \/ <>(pc = "failed")
                           \/ <>[](~has_capacity(Self))

\* C19, amended: FetchThrottled, whatever the consumer does; as long as no
\* clean_up call has removed a prepared block the window never shrinks, so
\* once has_capacity() is false it is false in the next state too and
\* last_loaded and the blocks loaded do not change; and if no clean_up call
\* ever removes a prepared block, the Maintainer does not fail and the
\* storage comes to hold limit or more unverified commits, then
\* has_capacity() is false forever from some cycle on.
C19_BacklogStallsLoading ==
    /\ [][FetchThrottled]_vars
    /\ [][NothingCleaned' =>
            /\ Capacity' >= Capacity
            /\ ~has_capacity(Self) =>
                 /\ ~has_capacity(Self)'
                 /\ last_loaded' = last_loaded
                 /\ loaded' = loaded
                 /\ DOMAIN operations' \subseteq DOMAIN operations]_vars
    /\ ([]NothingCleaned /\ <>FullWindow) => \/ <>(pc = "failed")
                                             \/ <>[](~has_capacity(Self))

\* C19 witness: the storage committed limit blocks from block 1 on, the
\* Maintainer loaded and prepared all of them, nothing was cleaned up, and
\* the next cycle finds no capacity.
C19_Witness ==
    /\ ~has_capacity(Self)
    /\ NothingCleaned
    /\ FullWindow
    /\ first_block = 1
    /\ Len(loaded) >= limit
    /\ Len(inserted) >= limit
    /\ pc = "maintain"

(***************************************************************************)
(* Proof order follows commit order.                                       *)
(***************************************************************************)
\* seq is strictly increasing
Increasing(seq) == \A i, j \in 1 .. Len(seq) : i < j => seq[i] < seq[j]

\* C20: with a storage that returns commits in increasing block order, the
\* block numbers inserted into prepared form a strictly increasing sequence,
\* no block is loaded or prepared twice, and every pending block number is
\* greater than every block number prepared so far, so that the pending and
\* the prepared keys are disjoint, whatever clean_up calls come in between.
C20_ProofOrderFollowsCommitOrder ==
    /\ Increasing(inserted)
    /\ Increasing(loaded)
    /\ \A p \in DOMAIN operations : \A i \in 1 .. Len(inserted) :
            p > inserted[i]
    /\ DOMAIN operations \cap DOMAIN prepared = {}
    /\ DOMAIN prepared \subseteq {inserted[i] : i \in 1 .. Len(inserted)}
    /\ \A i \in 1 .. Len(inserted) :
            \E j \in 1 .. Len(loaded) : inserted[i] = loaded[j]

\* C20 witness: two blocks were loaded and prepared in commit order, the
\* first one cleaned up before the second was inserted.
C20_Witness ==
    /\ Len(inserted) = 2
    /\ inserted = loaded
    /\ DOMAIN prepared = {inserted[2]}
    /\ ready = {inserted[2]}

(***************************************************************************)
(* Progress, over SpecFair.                                                *)
(***************************************************************************)
\* the i-th block of the storage has been committed
Committed(i) == Len(chain) >= i

\* the i-th block of the storage has been stored into the pool and inserted
\* into the prepared map
LoadedAndPrepared(i) ==
    /\ Len(chain) >= i
    /\ \E j \in 1 .. Len(loaded) : loaded[j] = chain[i].block_number
    /\ \E j \in 1 .. Len(inserted) : inserted[j] = chain[i].block_number

\* C21: if no step of the Maintainer ever fails, the Maintainer is scheduled
\* fairly and the consumer eventually cleans up every prepared block, then
\* every unverified block committed in the storage is eventually loaded
\* into the pool and eventually inserted into the prepared map, whatever the
\* block number of the first unverified commit is, above limit included.
C21_EveryBlockPrepared ==
    \/ <>(pc = "failed")
    \/ \A i \in 1 .. MaxBlocks : Committed(i) ~> LoadedAndPrepared(i)

====
